---- MODULE Spec2Model ----
(***************************************************************************)
(* A model of the image-crawl job of crawler.py: run_crawler_job_async     *)
(* reads the seed rows, crawls each seed with crawl_website_images (the    *)
(* frontier loop, image acquisition, dedup, the three analysis prompts     *)
(* and the skip policy) and writes the catalog once at the end.            *)
(*                                                                         *)
(* One job is one sequential coroutine; every action below is the code     *)
(* between two suspension points (await) of that coroutine.  What the web  *)
(* and the inference service answer is drawn with \E from small sets.      *)
(***************************************************************************)
EXTENDS Integers, Sequences, FiniteSets, TLC

(***************************************************************************)
(* Bounds of the model.                                                    *)
(***************************************************************************)
\* <img src> elements handled over the whole job
MaxImgs == 2
\* <a href> elements handled over the whole job
MaxLinks == 2

(***************************************************************************)
(* Values.                                                                 *)
(***************************************************************************)
None == "None"

\* what urlparse splits a URL into; the model keeps a URL in that form
Url(s, n, p) == [scheme |-> s, netloc |-> n, path |-> p]

Netlocs == {"a.com", "b.a.com"}

\* rows of the input list: the first field, stripped, empty rows dropped
SeedRows == {Url(s, n, "/") : s \in {"", "https"}, n \in Netlocs}
\* a row whose scheme is spelled in upper case
UpperSchemeRow == Url("HTTP", "a.com", "/")

\* the absolute URLs urljoin(current_page_url, href) yields for the links of a page
LinkTargets ==
    {Url("https", "a.com", p) : p \in {"/", "/p"}}
        \cup {Url("https", "b.a.com", "/"), Url("ftp", "a.com", "/f"),
              Url("mailto", "", "x@a.com")}

\* the pages of a site of three
ThreePages == {Url("https", "a.com", p) : p \in {"/", "/p", "/q"}}

\* the suffix of an image URL's path
ImgExts == {".jpg", ".jpeg", ".svg"}
ImgUrls == {[name |-> "i", ext |-> e] : e \in ImgExts}

\* what the image server answers: a body, or a failure (timeout, non-2xx)
FetchFailed == "fetch-failed"
Bodies == {"b1", "b2", "b3", "bad"}

\* PIL: the raster a body decodes to ("bad" does not decode); b1 and b2 are two
\* encodings of one raster
Raster(body) ==
    CASE body = "b1" -> "r1"
      [] body = "b2" -> "r1"
      [] body = "b3" -> "r2"
      [] OTHER -> None

MD5(x) == <<"md5", x>>
B64(x) == <<"b64", x>>
\* img.save(buffered, format=img.format): the re-encoded bytes of a raster
Reencode(raster) == <<"enc", raster>>

\* img.format of a decoded image: r1 comes from PNG files, r2 from a JPEG file
Format(raster) == IF raster = "r2" THEN "JPEG" ELSE "PNG"
\* formats whose encoder quantizes: saving a decoded image again changes pixels
LossyFormats == {"JPEG", "WEBP"}
\* the pixels Image.open yields for the bytes of a file as fetched
FilePixels(body) == <<"exact", Raster(body)>>
\* base64.b64decode of a payload
B64Decode(payload) == payload[2]
\* the pixels Image.open yields for re-encoded bytes: those of the raster when
\* the format is lossless, a requantized raster when it is lossy
ReencodedPixels(bytes) ==
    IF Format(bytes[2]) \in LossyFormats
    THEN <<"requantized", bytes[2]>>
    ELSE <<"exact", bytes[2]>>

\* JSON values of a 'category' field of the moderation answer
Str(s) == <<"str", s>>
Dict(s) == <<"dict", s>>

DescFail == "Description unavailable due to API failure"
DescDegraded == "Description unavailable (Ollama API not accessible)"
Unset == "<unset>"
API_PATHS == <<"/api/generate", "/v1/generate", "/api/v1/generate">>

ModerationFail == [category |-> Str("Unknown"), confidence |-> 0]
ModerationUnset == [category |-> Str(Unset), confidence |-> 0]

\* what generate_image_description can return
Descriptions == {"a photo", DescFail}
\* what categorize_image_content can return
Categories == {"Place", "Unknown"}
\* what moderate_image_content can return (confidence in tenths)
Moderations ==
    {ModerationFail,
     [category |-> Str("Normal"), confidence |-> 9],
     [category |-> Dict("Unknown"), confidence |-> 9],
     [category |-> Dict("Normal"), confidence |-> 9]}


(***************************************************************************)
(* The world a job runs against: the seed lists it may be given, what the  *)
(* pages of the sites hold, and what the inference service answers.  Each  *)
(* world is wide in one part of the input and narrow in the others.        *)
(***************************************************************************)
\* the input lists over the rows S: one row, or two (a second row makes a
\* second crawl in the same job, which may repeat the first row)
SeedLists(S) == {<<r>> : r \in S} \cup {<<r1, r2>> : r1 \in S, r2 \in S}

\* sites with many links, one plain image, a service that answers or fails whole
FrontierWorld ==
    [name |-> "frontier",
     seed_lists |-> SeedLists(SeedRows),
     link_targets |-> LinkTargets,
     img_urls |-> {[name |-> "i", ext |-> ".jpg"]},
     bodies |-> {"b1"},
     served |-> {{}, {"/v1/generate", "/api/v1/generate"}},
     descriptions |-> {"a photo", DescFail},
     categories |-> {"Unknown"},
     moderations |-> {ModerationFail},
     writable |-> {TRUE},
     raises |-> {FALSE},
     close_raises |-> {FALSE}]

\* sites whose pages repeat images under several URLs, a service that answers
DedupWorld ==
    [name |-> "dedup",
     seed_lists |-> SeedLists({Url("https", n, "/") : n \in Netlocs}),
     link_targets |-> {Url("https", "a.com", "/p")},
     img_urls |-> ImgUrls,
     bodies |-> Bodies \cup {FetchFailed},
     served |-> {{}, {"/api/generate"}},
     descriptions |-> {"a photo"},
     categories |-> {"Place"},
     moderations |-> {[category |-> Str("Normal"), confidence |-> 9]},
     writable |-> {TRUE, FALSE},
     raises |-> {FALSE},
     close_raises |-> {FALSE}]

\* one site, plain images, a service whose three answers fail independently
SkipWorld ==
    [name |-> "skip",
     seed_lists |-> {<<Url("https", "a.com", "/")>>, <<UpperSchemeRow>>},
     link_targets |-> {Url("https", "a.com", "/p")},
     img_urls |-> {[name |-> "i", ext |-> ".jpg"]},
     bodies |-> {"b1", "b3"},
     served |-> {{"/api/generate", "/v1/generate"}},
     descriptions |-> Descriptions,
     categories |-> Categories,
     moderations |-> Moderations,
     writable |-> {TRUE},
     raises |-> {FALSE, TRUE},
     close_raises |-> {FALSE}]

\* two sites, one of three pages linking to each other, one image, a service
\* that answers, a browser whose close() may raise when a crawl ends
EscapeWorld ==
    [name |-> "escape",
     seed_lists |-> SeedLists({Url("https", n, "/") : n \in Netlocs}),
     link_targets |-> ThreePages,
     img_urls |-> {[name |-> "i", ext |-> ".jpg"]},
     bodies |-> {"b1"},
     served |-> {{"/api/generate"}},
     descriptions |-> {"a photo"},
     categories |-> {"Place"},
     moderations |-> {[category |-> Str("Normal"), confidence |-> 9]},
     writable |-> {TRUE},
     raises |-> {FALSE},
     close_raises |-> {FALSE, TRUE}]

WorldNames == {"frontier", "dedup", "skip", "escape"}
World(name) ==
    CASE name = "frontier" -> FrontierWorld
      [] name = "dedup" -> DedupWorld
      [] name = "escape" -> EscapeWorld
      [] OTHER -> SkipWorld

(***************************************************************************)
(* Pure functions of crawler.py.                                           *)
(***************************************************************************)
\* str.lower() on the suffixes and schemes the model uses
Lower(ext) ==
    CASE ext = ".JPG" -> ".jpg"
      [] ext = "HTTP" -> "http"
      [] ext = "CSV" -> "csv"
      [] OTHER -> ext

image_extensions == {".jpg", ".jpeg", ".png", ".gif", ".bmp", ".webp"}

\* is_valid_image_url: the lower-cased path ends with an allowed extension
is_valid_image_url(img_url) == Lower(img_url.ext) \in image_extensions

\* run_crawler_job_async: 'if not re.match(r"^https?://", url): url = "https://"
\* + url', and what urlparse makes of the result.  The pattern is matched with
\* letter case: a row 'HTTP://a.com/' does not match, and urlparse of
\* 'https://HTTP://a.com/' has the netloc 'HTTP:' and the path '//a.com/'
EnsureScheme(row) ==
    IF row.scheme \in {"http", "https"} THEN row
    ELSE IF row.scheme = "" THEN Url("https", row.netloc, row.path)
    ELSE Url("https", row.scheme \o ":", "//" \o row.netloc \o row.path)

\* re.sub(r'[^\w\-_\. ]', '_', netloc): the netlocs of the model hold no other
\* character than ':' outside the kept class
Sanitize(netloc) ==
    CASE netloc = "a.com:80" -> "a.com_80"
      [] netloc = "HTTP:" -> "HTTP_"
      [] OTHER -> netloc

\* get_image_content, the extension of the saved file: the URL's suffix as it is
\* spelled when its lower case is an allowed one, else the decoder's format,
\* else '.jpg'
OriginalExtension(img_url, content) ==
    IF img_url.ext # "" /\ Lower(img_url.ext) \in image_extensions
    THEN img_url.ext
    ELSE IF Raster(content) # None THEN ".png" ELSE ".jpg"

\* get_image_content, the file it writes: {save_path}/{md5(content)}{extension}
FileName(save_path, img_url, content) ==
    [dir |-> save_path, stem |-> MD5(content),
     ext |-> OriginalExtension(img_url, content)]

NoFile == [dir |-> "", stem |-> MD5(""), ext |-> ""]

\* an acquisition whose verify() is outside the try block
get_image_content_Raises(img_url, body, writable, save_path) ==
    IF body = FetchFailed \/ ~writable
    THEN [ok |-> FALSE, raised |-> FALSE, image_base64 |-> B64(Reencode(None)),
          local_path |-> NoFile, written |-> {}]
    ELSE IF Raster(body) = None
    THEN [ok |-> FALSE, raised |-> TRUE, image_base64 |-> B64(Reencode(None)),
          local_path |-> NoFile,
          written |-> {FileName(save_path, img_url, body)}]
    ELSE [ok |-> TRUE, raised |-> FALSE,
          image_base64 |-> B64(Reencode(Raster(body))),
          local_path |-> FileName(save_path, img_url, body),
          written |-> {FileName(save_path, img_url, body)}]

\* an acquisition that returns a path without writing the file
get_image_content_Unsaved(img_url, body, writable, save_path) ==
    IF body = FetchFailed \/ ~writable \/ Raster(body) = None
    THEN [ok |-> FALSE, raised |-> FALSE, image_base64 |-> B64(Reencode(None)),
          local_path |-> NoFile, written |-> {}]
    ELSE [ok |-> TRUE, raised |-> FALSE,
          image_base64 |-> B64(Reencode(Raster(body))),
          local_path |-> FileName(save_path, img_url, body),
          written |-> {}]

\* get_image_content: what it returns, the files it leaves, and whether an
\* exception leaves it.  The whole body is inside 'try ... except Exception',
\* which returns (None, None): a fetch that fails or answers a status that is
\* not 2xx, a file that cannot be opened for writing, bytes that do not verify
\* or re-encode.  The file is written as soon as the body is read; verify()
\* and the re-encoding come after
get_image_content(img_url, body, writable, save_path) ==
    IF body = FetchFailed \/ ~writable
    THEN [ok |-> FALSE, raised |-> FALSE, image_base64 |-> B64(Reencode(None)),
          local_path |-> NoFile, written |-> {}]
    ELSE IF Raster(body) = None
    THEN [ok |-> FALSE, raised |-> FALSE, image_base64 |-> B64(Reencode(None)),
          local_path |-> NoFile,
          written |-> {FileName(save_path, img_url, body)}]
    ELSE [ok |-> TRUE, raised |-> FALSE,
          image_base64 |-> B64(Reencode(Raster(body))),
          local_path |-> FileName(save_path, img_url, body),
          written |-> {FileName(save_path, img_url, body)}]

\* crawl_website_images: img_hash = md5(image_base64.encode())
ImgHash(image_base64) == MD5(image_base64)

\* a dedup index that is not told of the image
AddHash_Forgets(hashes, img_hash) == hashes
\* crawl_website_images: image_hashes.add(img_hash), before the prompts
AddHash(hashes, img_hash) == hashes \cup {img_hash}

\* the link filter without the visited test
Admit_NoVisitedTest(absolute_url, parsed_root_url, visited) ==
    absolute_url.netloc = parsed_root_url.netloc

\* the link filter without the netloc test
Admit_AnyNetloc(absolute_url, parsed_root_url, visited) ==
    absolute_url \notin visited

\* crawl_website_images, the link filter: same netloc as the root and not visited
Admit(absolute_url, parsed_root_url, visited) ==
    absolute_url.netloc = parsed_root_url.netloc /\ absolute_url \notin visited

\* an exception of the crawl that ends the loop over the rows
EscapeResumes_EndsJob == "done"
\* run_crawler_job_async: 'except Exception' inside the for loop logs the
\* failure of crawl_website_images and the loop takes the next row
EscapeResumes == "seeds"
\* run_crawler_job_async: all_job_results.extend(site_results) is not reached
\* when crawl_website_images raises
AfterEscape(all_results, site_results) == all_results

\* a pop that leaves the URL pending
PopFrom_Keeps(pending, url) == pending
\* crawl_website_images: urls_to_visit.pop() removes the URL it returns
PopFrom(pending, url) == pending \ {url}

\* the popped URL is not recorded
MarkVisited_Forgets(visited, url) == visited

\* crawl_website_images: visited_urls.add(current_page_url)
MarkVisited(visited, url) == visited \cup {url}

\* a skip test that keeps every image
SkipTest_KeepsAll(description, content_category, moderation) == "keep"

\* crawl_website_images, the skip test after the three prompts:
\*   description == DescFail and content_category == 'Unknown'
\*     and moderation['category']['category'] == 'Unknown'
\* 'and' evaluates left to right and stops at the first false operand; the
\* third operand subscripts moderation['category'] with a string, which raises
\* TypeError when that value is a str and reads the inner field when it is a dict
SkipTest(description, content_category, moderation) ==
    IF description # DescFail THEN "keep"
    ELSE IF content_category # "Unknown" THEN "keep"
    ELSE IF moderation.category[1] = "str" THEN "raise"
    ELSE IF moderation.category[2] = "Unknown" THEN "skip"
    ELSE "keep"

\* a driver whose exit leaves the browser it launched running
PlaywrightExit_DriverOnly(open) == open \ {"playwright"}
\* the end of 'async with async_playwright() as p', on return and on exception:
\* the driver process is stopped, and with it the browser it launched and the
\* pages of that browser
PlaywrightExit(open) == open \ {"playwright", "browser", "page"}
\* the end of 'async with aiohttp.ClientSession() as session'
SessionExit(open) == open \ {"session"}
\* 'if "page" in locals() and not page.is_closed(): await page.close()', and
\* page.close() on the normal path
ClosePage(open) == open \ {"page"}

\* context.new_page() and page.goto(url): a page of a host that exists loads or
\* fails; for any other URL the navigation raises
GotoOutcomes(url) ==
    IF url.netloc \in Netlocs
    THEN {"loaded", "goto-raises", "new_page-raises"}
    ELSE {"goto-raises", "new_page-raises"}

\* an except clause that puts the failed URL back for another try
AfterPageError_Retries(pending, url) == pending \cup {url}
\* the except clause logs and closes the page: the frontier stays as it is
AfterPageError(pending, url) == pending

ExceptResumes_EndsCrawl == "seeds"
\* the except clause is inside 'while urls_to_visit': after it the loop goes on
ExceptResumes == "loop"

HasEndpoint_Always(api) == TRUE
\* crawl_website_images, 'if api_path:' before the three prompts
HasEndpoint(api) == api # None

\* check_ollama_server, against a server that answers 200 on the paths in
\* 'served': the first candidate path, in list order, that answers 200
check_ollama_server(served) ==
    IF \E k \in 1..Len(API_PATHS) : API_PATHS[k] \in served
    THEN API_PATHS[CHOOSE k \in 1..Len(API_PATHS) :
                      /\ API_PATHS[k] \in served
                      /\ \A j \in 1..(k - 1) : API_PATHS[j] \notin served]
    ELSE None

(***************************************************************************)
(* The inference client: what the service can answer, and what            *)
(* ollama_api_call and the three wrappers make of it.                      *)
(***************************************************************************)
RETRY_ATTEMPTS == 3

\* what a probe of check_ollama_server can meet: a status, or an exception
\* (connection refused, timeout)
ProbeOutcomes == {"200", "404", "503", "exc"}

RootOk_Always(outcome) == TRUE
\* 'if response.status != 200: return None'; an exception of session.get goes
\* to the outer except clause, which returns None as well
RootOk(outcome) == outcome = "200"

\* 'if api_response.status == 200: return api_path'
PathOk(outcome) == outcome = "200"

\* one request of check_ollama_server and what it met
Probe(path, outcome) == [path |-> path, outcome |-> outcome]

\* the text of a 'response' field, by what json.loads makes of it; Python's
\* None is the text of kind "none"
Missing == "<missing>"
Null == "<null>"
Text(kind, string, category, confidence) ==
    [kind |-> kind, string |-> string, category |-> category,
     confidence |-> confidence]
NoneText == Text("none", "", Missing, Missing)
EmptyText == Text("empty", "", Missing, Missing)
Prose(string) == Text("prose", string, Missing, Missing)
JsonArray == Text("array", "[1]", Missing, Missing)
JsonObject(category, confidence) == Text("object", "{..}", category, confidence)
JsonCategories == {"Place", Missing, Null}
JsonConfidences == {"0.9", "high", Missing, Null}
Texts ==
    {EmptyText, Prose("a photo"), JsonArray}
        \cup {JsonObject(c, f) : c \in JsonCategories, f \in JsonConfidences}

\* what one POST of ollama_api_call can meet: a status other than 200, an
\* exception of session.post, a 200 whose body is not JSON, is a JSON array,
\* is an object without a 'response' field, or is an object with one
Reply(kind, text) == [kind |-> kind, text |-> text]
Replies ==
    {Reply(k, NoneText) :
        k \in {"404", "500", "timeout", "not-json", "json-array", "no-field"}}
        \cup {Reply("text", t) : t \in Texts}

\* a 404 that is retried like any other failure
Attempt_Retries404(reply) ==
    CASE reply.kind \in {"404", "500", "timeout", "not-json", "json-array"} ->
            [does |-> "fail", value |-> NoneText]
      [] reply.kind = "no-field" ->
            [does |-> "return", value |-> Prose("No response")]
      [] OTHER -> [does |-> "return", value |-> reply.text]

\* a timeout that escapes the except clause
Attempt_TimeoutEscapes(reply) ==
    CASE reply.kind = "404" -> [does |-> "return", value |-> NoneText]
      [] reply.kind = "timeout" -> [does |-> "raise", value |-> NoneText]
      [] reply.kind \in {"500", "not-json", "json-array"} ->
            [does |-> "fail", value |-> NoneText]
      [] reply.kind = "no-field" ->
            [does |-> "return", value |-> Prose("No response")]
      [] OTHER -> [does |-> "return", value |-> reply.text]

\* the body of 'try' in ollama_api_call: a 404 returns None; raise_for_status,
\* response.json() and result.get raise into 'except Exception' (a failed
\* attempt); otherwise result.get('response', 'No response') is returned
Attempt(reply) ==
    CASE reply.kind = "404" -> [does |-> "return", value |-> NoneText]
      [] reply.kind \in {"500", "timeout", "not-json", "json-array"} ->
            [does |-> "fail", value |-> NoneText]
      [] reply.kind = "no-field" ->
            [does |-> "return", value |-> Prose("No response")]
      [] OTHER -> [does |-> "return", value |-> reply.text]

ShouldSleep_Always(n) == TRUE
\* 'if attempt < RETRY_ATTEMPTS - 1: await asyncio.sleep(...)'
ShouldSleep(n) == n < RETRY_ATTEMPTS - 1

RECURSIVE Pow2(_)
Pow2(n) == IF n = 0 THEN 1 ELSE 2 * Pow2(n - 1)
\* asyncio.sleep(2 ** attempt), in seconds
Backoff(n) == Pow2(n)

\* what a wrapper does: return a value, or let an exception escape
Ret(value) == [raised |-> FALSE, value |-> value]
Raise == [raised |-> TRUE, value |-> <<"wrapper">>]
\* an exception that leaves ollama_api_call passes through the wrapper
CallRaised == [raised |-> TRUE, value |-> <<"ollama_api_call">>]
NotReturned == [raised |-> FALSE, value |-> <<>>]

\* 'if response': None and the empty string are false
Truthy(text) == text.kind \notin {"none", "empty"}

\* float(x) of a JSON value, in tenths: a number converts, a string that is not
\* a number raises ValueError, null raises TypeError
Float(x) ==
    CASE x = "0.9" -> [error |-> "", value |-> 9]
      [] x = "high" -> [error |-> "ValueError", value |-> 0]
      [] x = Null -> [error |-> "TypeError", value |-> 0]

\* generate_image_description: 'response if response else <fixed string>'
generate_image_description(text) ==
    IF Truthy(text) THEN Ret(text) ELSE Ret(Prose(DescFail))

\* categorize_image_content: json.loads raises JSONDecodeError on prose, which
\* is caught; result.get on a value that is not an object raises
\* AttributeError, which is not
categorize_image_content(text) ==
    IF ~Truthy(text) THEN Ret("Unknown")
    ELSE IF text.kind = "prose" THEN Ret("Unknown")
    ELSE IF text.kind = "array" THEN Raise
    ELSE IF text.category = Missing THEN Ret("Unknown")
    ELSE IF text.category = Null THEN Ret(None)
    ELSE Ret(text.category)

JNull == <<"null", "">>
\* moderate_image_content: as above, and float() of the confidence, whose
\* ValueError is caught and whose TypeError is not
moderate_image_content(text) ==
    IF ~Truthy(text) THEN Ret(ModerationFail)
    ELSE IF text.kind = "prose" THEN Ret(ModerationFail)
    ELSE IF text.kind = "array" THEN Raise
    ELSE LET category == IF text.category = Missing THEN Str("Unknown")
                         ELSE IF text.category = Null THEN JNull
                         ELSE Str(text.category)
             confidence == IF text.confidence = Missing
                           THEN [error |-> "", value |-> 0]
                           ELSE Float(text.confidence)
         IN  IF confidence.error = "ValueError" THEN Ret(ModerationFail)
             ELSE IF confidence.error = "TypeError" THEN Raise
             ELSE Ret([category |-> category, confidence |-> confidence.value])

Prompts == {"describe", "categorize", "moderate"}
Wrapper(prompt, text) ==
    CASE prompt = "describe" -> generate_image_description(text)
      [] prompt = "categorize" -> categorize_image_content(text)
      [] prompt = "moderate" -> moderate_image_content(text)

(***************************************************************************)
(* State.                                                                  *)
(***************************************************************************)
VARIABLES
    world,             \* the world the job runs against (an input, fixed)
    csv_file,          \* the uploaded list: readable or not, and its rows (an input)
    pc,                \* where the job's coroutine stands
    job_result,        \* run_crawler_job_async: the value returned, None while running
    urls_to_crawl,     \* run_crawler_job_async: the rows read from the list
    seed_idx,          \* run_crawler_job_async: rows taken so far (the for loop)
    all_job_results,   \* run_crawler_job_async: the records of the finished crawls
    catalog_file,      \* analysis_results.json: on disk or not, dumped in full or
                       \* not, and its records
    catalog_writes,    \* history: times analysis_results.json was opened for writing
    files,             \* the image files on disk
    parsed_root_url,   \* crawl_website_images: the seed URL of the crawl
    site_image_data,   \* crawl_website_images: the records of this crawl
    visited_urls,      \* crawl_website_images
    urls_to_visit,     \* crawl_website_images
    image_hashes,      \* crawl_website_images: the dedup index
    api_path,          \* crawl_website_images: the endpoint found, or None
    discovery_log,     \* history: the result of each check_ollama_server call
    current_page_url,  \* crawl_website_images: the page being crawled
    image_entry,       \* crawl_website_images: the record being filled (cleared
                       \* when no image is being handled: the code never reads it then)
    navigations,       \* history: page.goto calls per URL, over the job
    site_navigations,  \* history: page.goto calls per URL, in this crawl
    analysed,          \* history: describe prompts sent per dedup key, over the job
    last_image,        \* history: what became of the image handled last on this page
    last_href,         \* history: the link handled last on this page, and whether admitted
    popped_visited,    \* history: the 'already visited, continue' branch was taken
    imgs_done,         \* <img> elements handled so far (bounded by MaxImgs)
    links_done,        \* <a> elements handled so far (bounded by MaxLinks)
    open_resources,    \* what the crawl holds open: the HTTP session, the
                       \* Playwright driver, the browser, the page
    last_page,         \* history: how the page handled last in the job ended
    failed_urls,       \* history: the URLs of this crawl whose page ended in the
                       \* except clause
    escaped,           \* history: the crawls an exception left, each as the number
                       \* of its row and of the records it had gathered
    cpc,               \* inference client: where the client stands
    probes,            \* check_ollama_server: the requests sent so far and what
                       \* each met, in order
    found,             \* check_ollama_server: the value returned
    request,           \* the prompt under way: describe, categorize or moderate
    attempt,           \* ollama_api_call: the loop variable of 'for attempt'
    requests,          \* ollama_api_call: POSTs sent by the call under way
    replies,           \* history: what each POST of the call met, in order
    delays,            \* ollama_api_call: the asyncio.sleep durations, in order
    response,          \* ollama_api_call: the value returned
    returned,          \* the value the prompt's wrapper returned, or its raise
    batch,             \* front end: the POSTs to /upload that will arrive (an input)
    handled,           \* front end: how many of them upload_file has handled
    jobs_folder,       \* front end: the directories under ./jobs and what they hold
    tasks,             \* executor: the submitted jobs in submission order, each with
                       \* its arguments, where it stands and its own locals
    flashes            \* history: the message flashed for each upload handled

clientVars == <<cpc, probes, found, request, attempt, requests, replies, delays,
                response, returned>>
poolVars == <<batch, handled, jobs_folder, tasks, flashes>>
fixedVars == <<world, csv_file, clientVars, poolVars>>
jobVars == <<fixedVars, job_result, catalog_writes, urls_to_crawl, seed_idx,
             all_job_results, catalog_file, escaped>>
crawlVars == <<parsed_root_url, site_image_data, visited_urls, urls_to_visit,
               image_hashes, api_path, discovery_log, current_page_url,
               image_entry>>
histVars == <<navigations, site_navigations, analysed, last_image, last_href,
              popped_visited>>
vars == <<pc, jobVars, files, crawlVars, histVars, imgs_done, links_done,
          open_resources, last_page, failed_urls>>

AllUrls ==
    LinkTargets \cup ThreePages
        \cup {EnsureScheme(r) : r \in SeedRows \cup {UpperSchemeRow}}
NoUrl == Url("", "", "")
DedupKeys == {ImgHash(B64(Reencode(Raster(b)))) : b \in Bodies \ {"bad"}}

NoEntry ==
    [source_url |-> NoUrl, original_image_url |-> [name |-> "", ext |-> ""],
     local_path |-> NoFile, description |-> Unset, content_category |-> Unset,
     moderation |-> ModerationUnset]
NoHref == [url |-> NoUrl, admitted |-> FALSE]

\* the lists a job may be given: one that cannot be opened or decoded, one with
\* no row, one with a blank row only, and the seed lists of the world
Unreadable == [readable |-> FALSE, rows |-> <<>>]
CsvFiles(name) ==
    {Unreadable}
        \cup {[readable |-> TRUE, rows |-> rows] :
                    rows \in {<<>>, <<NoUrl>>} \cup World(name).seed_lists}

ReadRows_Lenient(csv) ==
    [raised |-> FALSE,
     rows |-> IF csv.readable
              THEN SelectSeq(csv.rows, LAMBDA row : row # NoUrl)
              ELSE <<Url("https", "a.com", "/")>>]
\* 'with open(csv_file_path) ... [row[0].strip() for row in reader if row and
\* row[0].strip()]': the non-blank first cells, or the exception of open/decode
ReadRows(csv) ==
    IF csv.readable
    THEN [raised |-> FALSE, rows |-> SelectSeq(csv.rows, LAMBDA row : row # NoUrl)]
    ELSE [raised |-> TRUE, rows |-> <<>>]

\* a job that goes on with an empty list
NoUrlsFound_Never(rows) == FALSE
\* run_crawler_job_async: 'if not urls_to_crawl: ... return False'
NoUrlsFound(rows) == rows = <<>>

JobFinished_Early(idx, rows) == idx >= 1
\* the for loop over urls_to_crawl has taken every row
JobFinished(idx, rows) == idx = Len(rows)

\* what 'with open(output_json_path, "w") ... json.dump' can do: write the whole
\* document; raise in open, before the file exists; raise in the dump or in a
\* write (an unencodable character, a full disk), after open created the file
WriteOutcomes == {"dumped", "open-raises", "dump-raises"}
NoCatalog == [exists |-> FALSE, written |-> FALSE, records |-> <<>>]

JobInit ==
    /\ pc = "start"
    /\ job_result = None
    /\ urls_to_crawl = <<>>
    /\ seed_idx = 0
    /\ all_job_results = <<>>
    /\ catalog_file = NoCatalog
    /\ catalog_writes = 0
    /\ files = {}
    /\ parsed_root_url = NoUrl
    /\ site_image_data = <<>>
    /\ visited_urls = {}
    /\ urls_to_visit = {}
    /\ image_hashes = {}
    /\ api_path = None
    /\ discovery_log = <<>>
    /\ current_page_url = NoUrl
    /\ image_entry = NoEntry
    /\ navigations = [u \in AllUrls |-> 0]
    /\ site_navigations = [u \in AllUrls |-> 0]
    /\ analysed = [k \in DedupKeys |-> 0]
    /\ last_image = "none"
    /\ last_href = NoHref
    /\ popped_visited = FALSE
    /\ imgs_done = 0
    /\ links_done = 0
    /\ open_resources = {}
    /\ last_page = "none"
    /\ escaped = {}
    /\ failed_urls = {}

ClientIdle ==
    /\ cpc = "idle"
    /\ probes = <<>>
    /\ found = None
    /\ request = None
    /\ attempt = 0
    /\ requests = 0
    /\ replies = <<>>
    /\ delays = <<>>
    /\ response = NoneText
    /\ returned = NotReturned

(***************************************************************************)
(* The front end (app.py): uploads, job directories, the worker pool.      *)
(***************************************************************************)
\* a pool with a thread for every upload
max_workers_PerUpload == Len(batch)
\* executor = ThreadPoolExecutor(max_workers=2)
max_workers == 2

ALLOWED_EXTENSIONS == {"csv"}

\* a filename is the sequence of its parts between dots: 'urls.csv' is
\* <<"urls", "csv">>, 'csv' is <<"csv">>, '' is <<"">>
\* any name with a dot in it
allowed_file_AnyDotted(filename) == Len(filename) >= 2
\* allowed_file: '.' in filename and filename.rsplit('.', 1)[1].lower() in
\* ALLOWED_EXTENSIONS
allowed_file(filename) ==
    /\ Len(filename) >= 2
    /\ Lower(filename[Len(filename)]) \in ALLOWED_EXTENSIONS

\* a POST to /upload: whether it has a 'file' part, the part's filename, and
\* the rows of the list in it
Upload(has_file, filename, rows) ==
    [has_file |-> has_file, filename |-> filename, rows |-> rows]
ListA == <<Url("https", "a.com", "/")>>
ListB == <<Url("", "b.a.com", "/"), Url("https", "a.com", "/")>>
Accepted == {Upload(TRUE, <<"urls", "csv">>, ListA),
             Upload(TRUE, <<"LIST", "CSV">>, ListB)}
Rejected == {Upload(FALSE, <<"">>, <<>>),
             Upload(TRUE, <<"">>, <<>>),
             Upload(TRUE, <<"csv">>, ListA),
             Upload(TRUE, <<"urls", "txt">>, ListA),
             Upload(TRUE, <<"urls", "csv", "txt">>, ListB)}
\* three uploads in a row, at least two of them lists
Batches ==
    {<<x, y, z>> : x \in Accepted, y \in Accepted, z \in Accepted \cup Rejected}
        \cup {<<x, y, z>> : x \in Rejected, y \in Accepted, z \in Accepted}
        \cup {<<x, y, z>> : x \in Accepted, y \in Rejected, z \in Accepted}

\* datetime.now() to the second at each upload (the first two arrive within
\* the same second), and the first 8 characters of each uuid4() drawn, taken
\* to differ from draw to draw
Clock == <<"20240101_000000", "20240101_000000", "20240101_000001">>
Uuids == <<"1b9d6bcd", "6ec0bd7f", "9c4f2a1e">>

\* a job ID of the second alone
job_id_StampOnly(now, uuid) == now
\* job_id = f"{now:%Y%m%d_%H%M%S}_{str(uuid.uuid4())[:8]}"
job_id(now, uuid) == now \o "_" \o uuid

\* a job directory as mkdir leaves it
EmptyDir ==
    [has_input |-> FALSE, input_urls |-> <<>>, has_catalog |-> FALSE,
     catalog |-> <<>>, images |-> {}]
\* job_output_dir.mkdir(parents=True, exist_ok=True)
Mkdir(folder, dir) ==
    IF dir \in DOMAIN folder THEN folder ELSE folder @@ (dir :> EmptyDir)
\* file.save(csv_save_path), the path being job_output_dir / "input_urls.csv"
SaveCsv(folder, dir, rows) ==
    [folder EXCEPT ![dir].has_input = TRUE, ![dir].input_urls = rows]

\* the work item executor.submit queues: run_crawler_job_sync with its two
\* arguments, and the locals the job will have once a worker runs it
NewTask(dir, rows, no_worker_free) ==
    [csv_save_path |-> dir, job_output_dir |-> dir, state |-> "queued",
     uploaded |-> rows, waited |-> no_worker_free, result |-> None,
     urls_to_crawl |-> <<>>, seed_idx |-> 0, all_job_results |-> <<>>,
     parsed_root_url |-> NoUrl, site_image_data |-> <<>>, visited_urls |-> {},
     urls_to_visit |-> {}, image_hashes |-> {}, api_path |-> None]

\* the jobs a worker thread is running
Running == {j \in DOMAIN tasks : tasks[j].state \in {"read", "seeds", "loop"}}

\* the site the pooled jobs crawl: every host has the pages '/' and '/p', each
\* linking to the other, and both show the host's logo
SitePages(root) == {Url(root.scheme, root.netloc, p) : p \in {"/", "/p"}}
SiteLinks(page) == SitePages(page) \ {page}
SiteLogo(page) == <<"logo", page.netloc>>
\* the record crawl_website_images appends for the logo met on a page
LogoRecord(dir, page) ==
    [source_url |-> page,
     original_image_url |-> Url(page.scheme, page.netloc, "/logo.jpg"),
     local_path |-> <<dir, Sanitize(page.netloc), "logo.jpg">>,
     content_hash |-> MD5(SiteLogo(page))]
\* the catalog a job writes for a list when nothing else runs: for each row,
\* the logo as met on the seed page
SoloCatalog(rows, dir) ==
    [i \in 1..Len(rows) |-> LogoRecord(dir, EnsureScheme(rows[i]))]
SoloImages(rows) ==
    {<<Sanitize(EnsureScheme(rows[i]).netloc), "logo.jpg">> : i \in 1..Len(rows)}

PoolIdle ==
    /\ batch = <<>>
    /\ handled = 0
    /\ jobs_folder = <<>>
    /\ tasks = <<>>
    /\ flashes = <<>>

Init ==
    /\ world \in WorldNames
    /\ csv_file \in CsvFiles(world)
    /\ JobInit
    /\ ClientIdle
    /\ PoolIdle

(***************************************************************************)
(* run_crawler_job_async and crawl_website_images, step by step.           *)
(***************************************************************************)
\* the for loop takes the next row, gives it a scheme, and crawl_website_images
\* starts: fresh records, frontier and dedup index, the seed alone pending
\* the list is read; a list that cannot be read, or holds no URL, ends the job
\* with False before anything else happens
ReadCsv ==
    /\ pc = "start"
    /\ LET rows == ReadRows(csv_file).rows IN
        IF ReadRows(csv_file).raised \/ NoUrlsFound(rows)
        THEN /\ job_result' = "False"
             /\ pc' = "done"
             /\ UNCHANGED urls_to_crawl
        ELSE /\ urls_to_crawl' = rows
             /\ pc' = "seeds"
             /\ UNCHANGED job_result
    /\ UNCHANGED <<fixedVars, catalog_writes, seed_idx, all_job_results,
                   catalog_file, files, crawlVars, histVars, imgs_done,
                   links_done, open_resources, last_page, escaped, failed_urls>>

StartCrawl ==
    /\ pc = "seeds"
    /\ ~JobFinished(seed_idx, urls_to_crawl)
    /\ LET url == EnsureScheme(urls_to_crawl[seed_idx + 1]) IN
        /\ parsed_root_url' = url
        /\ urls_to_visit' = {url}
    /\ seed_idx' = seed_idx + 1
    /\ site_image_data' = <<>>
    /\ visited_urls' = {}
    /\ image_hashes' = {}
    /\ failed_urls' = {}
    /\ api_path' = None
    /\ site_navigations' = [u \in AllUrls |-> 0]
    /\ open_resources' = {"session"}
    /\ pc' = "discover"
    /\ UNCHANGED <<fixedVars, job_result, catalog_writes, urls_to_crawl,
                   all_job_results, catalog_file, files, discovery_log,
                   current_page_url, image_entry, navigations, analysed,
                   last_image, last_href, popped_visited, imgs_done, links_done,
                   last_page, escaped>>

\* api_path = await check_ollama_server(session)
CheckOllamaServer ==
    /\ pc = "discover"
    /\ \E served \in World(world).served :
            /\ api_path' = check_ollama_server(served)
            /\ discovery_log' = Append(discovery_log, api_path')
    /\ pc' = "launch"
    /\ UNCHANGED <<jobVars, files, parsed_root_url, site_image_data, visited_urls,
                   urls_to_visit, image_hashes, current_page_url, image_entry,
                   histVars, imgs_done, links_done, open_resources, last_page,
                   failed_urls>>

\* 'async with async_playwright() as p', p.chromium.launch, browser.new_context
LaunchBrowser ==
    /\ pc = "launch"
    /\ open_resources' = open_resources \cup {"playwright", "browser"}
    /\ pc' = "loop"
    /\ UNCHANGED <<jobVars, files, crawlVars, histVars, imgs_done, links_done,
                   last_page, failed_urls>>

\* p.chromium.launch raises (no browser yet), browser.new_context raises (the
\* browser runs) or, the frontier empty, browser.close() raises: the two
\* 'async with' blocks are left, the crawl ends with the exception and returns
\* nothing, run_crawler_job_async logs it and goes on to the next row
CrawlRaises ==
    /\ \/ /\ pc = "launch"
          /\ \E launched \in SUBSET {"browser"} :
                open_resources' =
                    SessionExit(PlaywrightExit(
                        open_resources \cup {"playwright"} \cup launched))
       \/ /\ pc = "loop"
          /\ urls_to_visit = {}
          /\ TRUE \in World(world).close_raises
          /\ open_resources' = SessionExit(PlaywrightExit(open_resources))
    /\ escaped' = escaped \cup {<<seed_idx, Len(site_image_data)>>}
    /\ all_job_results' = AfterEscape(all_job_results, site_image_data)
    /\ site_image_data' = <<>>
    /\ visited_urls' = {}
    /\ image_hashes' = {}
    /\ failed_urls' = {}
    /\ urls_to_visit' = {}
    /\ api_path' = None
    /\ parsed_root_url' = NoUrl
    /\ pc' = EscapeResumes
    /\ UNCHANGED <<fixedVars, job_result, catalog_writes, urls_to_crawl, seed_idx,
                   catalog_file, files, discovery_log, current_page_url,
                   image_entry, histVars, imgs_done, links_done, last_page>>

\* the head of 'while urls_to_visit': pop any pending URL; one already visited
\* is dropped, any other is marked visited and becomes the current page
Pop ==
    /\ pc = "loop"
    /\ \E url \in urls_to_visit :
        /\ urls_to_visit' = PopFrom(urls_to_visit, url)
        /\ IF url \in visited_urls
           THEN /\ popped_visited' = TRUE
                /\ UNCHANGED <<visited_urls, current_page_url, pc>>
           ELSE /\ visited_urls' = MarkVisited(visited_urls, url)
                /\ current_page_url' = url
                /\ pc' = "goto"
                /\ UNCHANGED popped_visited
    /\ UNCHANGED <<jobVars, files, parsed_root_url, site_image_data, image_hashes,
                   api_path,
                   discovery_log, image_entry, navigations, site_navigations, analysed,
                   last_image, last_href, imgs_done, links_done,
                   open_resources, last_page, failed_urls>>

\* context.new_page() and page.goto(current_page_url): the page loads, or the
\* navigation raises (timeout, network error), or the page cannot be created;
\* an exception goes to the except clause
Goto ==
    /\ pc = "goto"
    /\ navigations' = [navigations EXCEPT ![current_page_url] = @ + 1]
    /\ site_navigations' = [site_navigations EXCEPT ![current_page_url] = @ + 1]
    /\ \E outcome \in GotoOutcomes(current_page_url) :
        /\ pc' = IF outcome = "loaded" THEN "images" ELSE "except"
        /\ open_resources' = IF outcome = "new_page-raises"
                             THEN open_resources
                             ELSE open_resources \cup {"page"}
    /\ UNCHANGED <<jobVars, files, crawlVars, analysed, last_image, last_href,
                   popped_visited, imgs_done, links_done, last_page,
                   failed_urls>>

\* one round of 'for img in img_elements' up to the prompts: the URL filter,
\* get_image_content, the dedup test, the new record; without an endpoint the
\* record gets the placeholders and is appended at once
NextImage ==
    /\ pc = "images"
    /\ imgs_done < MaxImgs
    /\ imgs_done' = imgs_done + 1
    /\ \E img_url \in World(world).img_urls, body \in World(world).bodies,
          writable \in World(world).writable :
        IF ~is_valid_image_url(img_url)
        THEN /\ last_image' = "filtered"
             /\ image_entry' = NoEntry
             /\ UNCHANGED <<files, image_hashes, site_image_data, pc>>
        ELSE LET got == get_image_content(img_url, body, writable,
                                          Sanitize(parsed_root_url.netloc))
                 img_hash == ImgHash(got.image_base64)
                 entry == [NoEntry EXCEPT !.source_url = current_page_url,
                                          !.original_image_url = img_url,
                                          !.local_path = got.local_path]
             IN
             /\ files' = files \cup got.written
             /\ IF got.raised
                THEN /\ last_image' = "acquire-raised"
                     /\ image_entry' = NoEntry
                     /\ pc' = "except"
                     /\ UNCHANGED <<image_hashes, site_image_data>>
                ELSE IF ~got.ok
                THEN /\ last_image' = "no-result"
                     /\ image_entry' = NoEntry
                     /\ UNCHANGED <<image_hashes, site_image_data, pc>>
                ELSE IF img_hash \in image_hashes
                THEN /\ last_image' = "duplicate"
                     /\ image_entry' = NoEntry
                     /\ UNCHANGED <<image_hashes, site_image_data, pc>>
                ELSE /\ image_hashes' = AddHash(image_hashes, img_hash)
                     /\ IF HasEndpoint(api_path)
                        THEN /\ image_entry' = entry
                             /\ pc' = "describe"
                             /\ last_image' = "new"
                             /\ UNCHANGED site_image_data
                        ELSE /\ image_entry' =
                                    [entry EXCEPT !.description = DescDegraded,
                                                  !.content_category = "Unknown",
                                                  !.moderation = ModerationFail]
                             /\ site_image_data' =
                                    Append(site_image_data, image_entry')
                             /\ last_image' = "degraded"
                             /\ UNCHANGED pc
    /\ UNCHANGED <<jobVars, parsed_root_url, visited_urls, urls_to_visit, api_path,
                   discovery_log,
                   current_page_url, navigations, site_navigations, analysed,
                   last_href, popped_visited, links_done, open_resources,
                   last_page, failed_urls>>

\* the dedup key of a record, from the body its file holds
EntryKey(entry) == ImgHash(B64(Reencode(Raster(entry.local_path.stem[2]))))

\* generate_image_description: the model's text, or the fixed string on failure
Describe ==
    /\ pc = "describe"
    /\ \E description \in World(world).descriptions :
            image_entry' = [image_entry EXCEPT !.description = description]
    /\ analysed' = [analysed EXCEPT ![EntryKey(image_entry)] = @ + 1]
    /\ pc' = "categorize"
    /\ UNCHANGED <<jobVars, files, parsed_root_url, site_image_data, visited_urls,
                   urls_to_visit, image_hashes, api_path,
                   discovery_log, current_page_url,
                   navigations, site_navigations, last_image, last_href,
                   popped_visited, imgs_done, links_done, open_resources,
                   last_page, failed_urls>>

\* categorize_image_content: the category, or 'Unknown', or the exception of an
\* answer that is JSON but not an object, which the page's except clause takes
Categorize ==
    /\ pc = "categorize"
    /\ \E raises \in World(world).raises :
        IF raises
        THEN /\ pc' = "except"
             /\ UNCHANGED image_entry
        ELSE /\ \E content_category \in World(world).categories :
                    image_entry' =
                        [image_entry EXCEPT !.content_category = content_category]
             /\ pc' = "moderate"
    /\ UNCHANGED <<jobVars, files, parsed_root_url, site_image_data, visited_urls,
                   urls_to_visit, image_hashes, api_path,
                   discovery_log, current_page_url,
                   histVars, imgs_done, links_done, open_resources, last_page,
                   failed_urls>>

\* moderate_image_content: category and confidence, or {Unknown, 0.0}, or the
\* exception of an answer that is not an object or has a null confidence
Moderate ==
    /\ pc = "moderate"
    /\ \E raises \in World(world).raises :
        IF raises
        THEN /\ pc' = "except"
             /\ UNCHANGED image_entry
        ELSE /\ \E moderation \in World(world).moderations :
                    image_entry' = [image_entry EXCEPT !.moderation = moderation]
             /\ pc' = "skip_test"
    /\ UNCHANGED <<jobVars, files, parsed_root_url, site_image_data, visited_urls,
                   urls_to_visit, image_hashes, api_path,
                   discovery_log, current_page_url,
                   histVars, imgs_done, links_done, open_resources, last_page,
                   failed_urls>>

\* the skip test and what follows it: the record is appended, or the image is
\* skipped, or the test raises and the page's except clause takes over
SkipOrAppend ==
    /\ pc = "skip_test"
    /\ LET verdict == SkipTest(image_entry.description,
                               image_entry.content_category,
                               image_entry.moderation)
       IN
       /\ last_image' = verdict
       /\ site_image_data' = IF verdict = "keep"
                             THEN Append(site_image_data, image_entry)
                             ELSE site_image_data
       /\ pc' = IF verdict = "raise" THEN "except" ELSE "images"
    /\ UNCHANGED <<jobVars, files, parsed_root_url, visited_urls, urls_to_visit,
                   image_hashes, api_path,
                   discovery_log, current_page_url, image_entry,
                   navigations, site_navigations, analysed, last_href,
                   popped_visited, imgs_done, links_done, open_resources,
                   last_page, failed_urls>>

\* the image loop is over: page.query_selector_all('a[href]')
ImagesDone ==
    /\ pc = "images"
    /\ pc' = "links"
    /\ image_entry' = NoEntry
    /\ last_image' = "none"
    /\ UNCHANGED <<jobVars, files, parsed_root_url, site_image_data, visited_urls,
                   urls_to_visit, image_hashes, api_path,
                   discovery_log, current_page_url,
                   navigations, site_navigations, analysed, last_href,
                   popped_visited, imgs_done, links_done, open_resources,
                   last_page, failed_urls>>

\* one round of 'for link in links': a target on the root's netloc that is not
\* visited is added to the pending set
NextLink ==
    /\ pc = "links"
    /\ links_done < MaxLinks
    /\ links_done' = links_done + 1
    /\ \E absolute_url \in World(world).link_targets :
        LET admitted == Admit(absolute_url, parsed_root_url, visited_urls) IN
        /\ urls_to_visit' = IF admitted
                            THEN urls_to_visit \cup {absolute_url}
                            ELSE urls_to_visit
        /\ last_href' = [url |-> absolute_url, admitted |-> admitted]
    /\ UNCHANGED <<pc, jobVars, files, parsed_root_url, site_image_data,
                   visited_urls, image_hashes, api_path,
                   discovery_log, current_page_url,
                   image_entry, navigations, site_navigations, analysed,
                   last_image, popped_visited, imgs_done, open_resources,
                   last_page, failed_urls>>

\* the link loop is over: page.close(), the pacing sleep, back to the loop head
PageClose ==
    /\ pc = "links"
    /\ pc' = "loop"
    /\ open_resources' = ClosePage(open_resources)
    /\ last_page' = "closed"
    /\ current_page_url' = NoUrl
    /\ last_href' = NoHref
    /\ UNCHANGED <<jobVars, files, parsed_root_url, site_image_data, visited_urls,
                   urls_to_visit, image_hashes, api_path,
                   discovery_log, image_entry,
                   navigations, site_navigations, analysed, last_image,
                   popped_visited, imgs_done, links_done, failed_urls>>

\* 'except Exception': the error is logged, the page closed, the loop goes on
PageError ==
    /\ pc = "except"
    /\ pc' = ExceptResumes
    /\ open_resources' = ClosePage(open_resources)
    /\ last_page' = IF last_image = "none" THEN "goto-failed" ELSE "aborted"
    /\ failed_urls' = failed_urls \cup {current_page_url}
    /\ urls_to_visit' = AfterPageError(urls_to_visit, current_page_url)
    /\ current_page_url' = NoUrl
    /\ image_entry' = NoEntry
    /\ last_image' = "none"
    /\ UNCHANGED <<jobVars, files, parsed_root_url, site_image_data, visited_urls,
                   image_hashes, api_path,
                   discovery_log, navigations,
                   site_navigations, analysed, last_href, popped_visited,
                   imgs_done, links_done>>

\* the frontier is empty: the browser is closed, the crawl returns its records
\* and the job extends all_job_results with them
CrawlDone ==
    /\ pc = "loop"
    /\ urls_to_visit = {}
    /\ all_job_results' = all_job_results \o site_image_data
    /\ site_image_data' = <<>>
    /\ visited_urls' = {}
    /\ image_hashes' = {}
    /\ failed_urls' = {}
    /\ api_path' = None
    /\ parsed_root_url' = NoUrl
    /\ open_resources' = SessionExit(PlaywrightExit(open_resources \ {"browser"}))
    /\ pc' = "seeds"
    /\ UNCHANGED <<fixedVars, job_result, catalog_writes, urls_to_crawl, seed_idx,
                   catalog_file, files, urls_to_visit, discovery_log,
                   current_page_url, image_entry, histVars, imgs_done,
                   links_done, last_page, escaped>>

\* every row is done: json.dump(all_job_results) into analysis_results.json and
\* 'return True', or the outer except clause and 'return False'
WriteCatalog ==
    /\ pc = "seeds"
    /\ JobFinished(seed_idx, urls_to_crawl)
    /\ \E outcome \in WriteOutcomes :
        /\ catalog_file' =
                CASE outcome = "dumped" ->
                        [exists |-> TRUE, written |-> TRUE,
                         records |-> all_job_results]
                  [] outcome = "open-raises" -> catalog_file
                  [] outcome = "dump-raises" ->
                        [exists |-> TRUE, written |-> FALSE, records |-> <<>>]
        /\ catalog_writes' = IF outcome = "open-raises"
                             THEN catalog_writes
                             ELSE catalog_writes + 1
        /\ job_result' = IF outcome = "dumped" THEN "True" ELSE "False"
    /\ pc' = "done"
    /\ UNCHANGED <<fixedVars, urls_to_crawl, seed_idx, all_job_results, files,
                   crawlVars, histVars, imgs_done, links_done, open_resources,
                   last_page, escaped, failed_urls>>

Next ==
    \/ ReadCsv
    \/ StartCrawl
    \/ CheckOllamaServer
    \/ LaunchBrowser
    \/ CrawlRaises
    \/ Pop
    \/ Goto
    \/ NextImage
    \/ Describe
    \/ Categorize
    \/ Moderate
    \/ SkipOrAppend
    \/ ImagesDone
    \/ NextLink
    \/ PageClose
    \/ PageError
    \/ CrawlDone
    \/ WriteCatalog

Spec == Init /\ [][Next]_vars

\* the job against a site with a finite set of links, every await returning:
\* the coroutine takes its next step whenever it has one
FairInit == Init /\ world = "frontier"
SpecFair == FairInit /\ [][Next]_vars /\ WF_vars(Next)

(***************************************************************************)
(* The inference client, step by step: check_ollama_server request by      *)
(* request, then one prompt through ollama_api_call and its wrapper.       *)
(***************************************************************************)
\* session.get(OLLAMA_ENDPOINT): the liveness probe of the server root
ProbeRoot ==
    /\ cpc = "idle"
    /\ \E outcome \in ProbeOutcomes :
        /\ probes' = <<Probe("/", outcome)>>
        /\ IF RootOk(outcome)
           THEN /\ cpc' = "paths"
                /\ UNCHANGED found
           ELSE /\ cpc' = "ready"
                /\ found' = None
    /\ UNCHANGED <<request, attempt, requests, replies, delays, response,
                   returned>>

\* one round of 'for api_path in API_PATHS': the test prompt is posted to the
\* next candidate; a 200 returns the path, anything else goes on to the next
\* one, and the end of the list returns None
ProbePath ==
    /\ cpc = "paths"
    /\ LET api == API_PATHS[Len(probes)] IN
        \E outcome \in ProbeOutcomes :
            /\ probes' = Append(probes, Probe(api, outcome))
            /\ IF PathOk(outcome)
               THEN /\ found' = api
                    /\ cpc' = "ready"
               ELSE IF Len(probes) = Len(API_PATHS)
               THEN /\ found' = None
                    /\ cpc' = "ready"
               ELSE UNCHANGED <<found, cpc>>
    /\ UNCHANGED <<request, attempt, requests, replies, delays, response,
                   returned>>

\* with an endpoint, a prompt for an image starts: 'for attempt in range(...)'
StartCall ==
    /\ cpc = "ready"
    /\ found # None
    /\ request' \in Prompts
    /\ attempt' = 0
    /\ requests' = 0
    /\ replies' = <<>>
    /\ delays' = <<>>
    /\ cpc' = "post"
    /\ UNCHANGED <<probes, found, response, returned>>

\* one attempt: the POST and what the try block makes of the reply; a failed
\* attempt sleeps before the next one, the last failed attempt returns None
Post ==
    /\ cpc = "post"
    /\ requests' = requests + 1
    /\ \E reply \in Replies :
        /\ replies' = Append(replies, reply.kind)
        /\ LET did == Attempt(reply) IN
            CASE did.does = "return" ->
                    /\ response' = did.value
                    /\ cpc' = "wrap"
                    /\ UNCHANGED returned
              [] did.does = "raise" ->
                    /\ returned' = CallRaised
                    /\ cpc' = "returned"
                    /\ UNCHANGED response
              [] did.does = "fail" ->
                    /\ IF ShouldSleep(attempt)
                       THEN cpc' = "sleep"
                       ELSE cpc' = "wrap"
                    /\ response' = NoneText
                    /\ UNCHANGED returned
    /\ UNCHANGED <<probes, found, request, attempt, delays>>

\* asyncio.sleep(2 ** attempt), then the next round of the loop; when the range
\* is used up the function returns None
Sleep ==
    /\ cpc = "sleep"
    /\ delays' = Append(delays, Backoff(attempt))
    /\ attempt' = attempt + 1
    /\ cpc' = IF attempt + 1 < RETRY_ATTEMPTS THEN "post" ELSE "wrap"
    /\ UNCHANGED <<probes, found, request, requests, replies, response,
                   returned>>

\* the wrapper of the prompt reads the answer
Wrap ==
    /\ cpc = "wrap"
    /\ returned' = Wrapper(request, response)
    /\ cpc' = "returned"
    /\ UNCHANGED <<probes, found, request, attempt, requests, replies, delays,
                   response>>

jobSide == <<world, csv_file, pc, job_result, catalog_writes, urls_to_crawl,
             seed_idx, all_job_results, catalog_file, files, crawlVars, histVars,
             imgs_done, links_done, open_resources, last_page, escaped,
             failed_urls, poolVars>>

ClientInit ==
    /\ world = "skip"
    /\ csv_file = Unreadable
    /\ JobInit
    /\ ClientIdle
    /\ PoolIdle

ClientNext ==
    \/ ProbeRoot /\ UNCHANGED jobSide
    \/ ProbePath /\ UNCHANGED jobSide
    \/ StartCall /\ UNCHANGED jobSide
    \/ Post /\ UNCHANGED jobSide
    \/ Sleep /\ UNCHANGED jobSide
    \/ Wrap /\ UNCHANGED jobSide

SpecClient == ClientInit /\ [][ClientNext]_vars

(***************************************************************************)
(* The front end: upload_file, the executor, the jobs it runs.             *)
(***************************************************************************)
crawlerSide == <<world, csv_file, pc, job_result, catalog_writes, urls_to_crawl,
                 seed_idx, all_job_results, catalog_file, files, crawlVars,
                 histVars, imgs_done, links_done, open_resources, last_page,
                 escaped, failed_urls, clientVars>>

\* POST /upload, the whole handler: no 'file' part, an empty filename and a
\* filename that is not allowed are each answered with a flash and a redirect;
\* an allowed one gets its job directory, its list saved in it, and its job
\* submitted to the executor
upload_file ==
    /\ handled < Len(batch)
    /\ handled' = handled + 1
    /\ LET file == batch[handled + 1]
           dir == job_id(Clock[handled + 1], Uuids[handled + 1])
       IN  CASE ~file.has_file ->
                    /\ flashes' = Append(flashes, "No file part")
                    /\ UNCHANGED <<jobs_folder, tasks>>
             [] file.has_file /\ file.filename = <<"">> ->
                    /\ flashes' = Append(flashes, "No selected file")
                    /\ UNCHANGED <<jobs_folder, tasks>>
             [] file.has_file /\ file.filename # <<"">>
                    /\ allowed_file(file.filename) ->
                    /\ jobs_folder' =
                           SaveCsv(Mkdir(jobs_folder, dir), dir, file.rows)
                    /\ flashes' = Append(flashes, "uploaded")
                    /\ tasks' = Append(tasks,
                           NewTask(dir, file.rows,
                                   Cardinality(Running) >= max_workers))
             [] OTHER ->
                    /\ flashes' = Append(flashes, "Allowed file types are CSV")
                    /\ UNCHANGED <<jobs_folder, tasks>>
    /\ UNCHANGED batch

\* a worker thread of the executor takes the oldest queued job: there is one
\* to take it only while fewer than max_workers jobs are running
StartJob(j) ==
    /\ tasks[j].state = "queued"
    /\ \A k \in 1..(j - 1) : tasks[k].state # "queued"
    /\ Cardinality(Running) < max_workers
    /\ tasks' = [tasks EXCEPT ![j].state = "read"]
    /\ UNCHANGED <<batch, handled, jobs_folder, flashes>>

\* run_crawler_job_async reads the list at csv_file_path; an empty one ends
\* the job with False
JobRead(j) ==
    /\ tasks[j].state = "read"
    /\ LET rows == jobs_folder[tasks[j].csv_save_path].input_urls IN
        tasks' = IF rows = <<>>
                 THEN [tasks EXCEPT ![j].state = "finished",
                                    ![j].result = "False"]
                 ELSE [tasks EXCEPT ![j].state = "seeds",
                                    ![j].urls_to_crawl = rows]
    /\ UNCHANGED <<batch, handled, jobs_folder, flashes>>

\* the for loop takes the next row and crawl_website_images starts with fresh
\* locals and the endpoint check_ollama_server finds
JobSeed(j) ==
    /\ tasks[j].state = "seeds"
    /\ tasks[j].seed_idx < Len(tasks[j].urls_to_crawl)
    /\ LET url == EnsureScheme(tasks[j].urls_to_crawl[tasks[j].seed_idx + 1]) IN
        tasks' = [tasks EXCEPT ![j].state = "loop",
                               ![j].seed_idx = @ + 1,
                               ![j].parsed_root_url = url,
                               ![j].site_image_data = <<>>,
                               ![j].visited_urls = {},
                               ![j].urls_to_visit = {url},
                               ![j].image_hashes = {},
                               ![j].api_path = "/api/generate"]
    /\ UNCHANGED <<batch, handled, jobs_folder, flashes>>

\* one pass of the while loop: a URL is popped and marked visited, the logo of
\* the page is saved and recorded unless its hash is in the dedup index, the
\* page's links not yet visited are added to the frontier
JobPage(j) ==
    /\ tasks[j].state = "loop"
    /\ \E page \in tasks[j].urls_to_visit :
        LET t == tasks[j]
            hash == MD5(SiteLogo(page))
            fresh == hash \notin t.image_hashes
            visited == t.visited_urls \cup {page}
        IN  /\ tasks' =
                [tasks EXCEPT
                    ![j].visited_urls = visited,
                    ![j].urls_to_visit =
                        PopFrom(@, page) \cup (SiteLinks(page) \ visited),
                    ![j].image_hashes = @ \cup {hash},
                    ![j].site_image_data =
                        IF fresh
                        THEN Append(@, LogoRecord(t.job_output_dir, page))
                        ELSE @]
            /\ jobs_folder' =
                IF fresh
                THEN [jobs_folder EXCEPT ![t.job_output_dir].images =
                        @ \cup {<<Sanitize(page.netloc), "logo.jpg">>}]
                ELSE jobs_folder
    /\ UNCHANGED <<batch, handled, flashes>>

\* the frontier is empty: the crawl returns its records and the job extends
\* its own with them
JobCrawlEnd(j) ==
    /\ tasks[j].state = "loop"
    /\ tasks[j].urls_to_visit = {}
    /\ tasks' = [tasks EXCEPT
                    ![j].state = "seeds",
                    ![j].all_job_results = @ \o tasks[j].site_image_data]
    /\ UNCHANGED <<batch, handled, jobs_folder, flashes>>

\* after the last row the job writes analysis_results.json in its
\* job_output_dir and returns True; its worker is free again
JobWrite(j) ==
    /\ tasks[j].state = "seeds"
    /\ tasks[j].seed_idx = Len(tasks[j].urls_to_crawl)
    /\ jobs_folder' =
        [jobs_folder EXCEPT
            ![tasks[j].job_output_dir].has_catalog = TRUE,
            ![tasks[j].job_output_dir].catalog = tasks[j].all_job_results]
    /\ tasks' = [tasks EXCEPT ![j].state = "finished", ![j].result = "True"]
    /\ UNCHANGED <<batch, handled, flashes>>

\* a step of job j in its worker thread
JobStep(j) ==
    \/ JobRead(j)
    \/ JobSeed(j)
    \/ JobPage(j)
    \/ JobCrawlEnd(j)
    \/ JobWrite(j)

\* the front end starts with ./jobs empty and nothing submitted
PoolInit ==
    /\ world = "skip"
    /\ csv_file = Unreadable
    /\ JobInit
    /\ ClientIdle
    /\ batch \in Batches
    /\ handled = 0
    /\ jobs_folder = <<>>
    /\ tasks = <<>>
    /\ flashes = <<>>

PoolNext ==
    \/ upload_file /\ UNCHANGED crawlerSide
    \/ \E j \in DOMAIN tasks : StartJob(j) /\ UNCHANGED crawlerSide
    \/ \E j \in DOMAIN tasks : JobRead(j) /\ UNCHANGED crawlerSide
    \/ \E j \in DOMAIN tasks : JobSeed(j) /\ UNCHANGED crawlerSide
    \/ \E j \in DOMAIN tasks : JobPage(j) /\ UNCHANGED crawlerSide
    \/ \E j \in DOMAIN tasks : JobCrawlEnd(j) /\ UNCHANGED crawlerSide
    \/ \E j \in DOMAIN tasks : JobWrite(j) /\ UNCHANGED crawlerSide

SpecPool == PoolInit /\ [][PoolNext]_vars

\* the same with the scheduling of threads: a free worker takes a queued job,
\* and the thread of a running job is given its next step
SpecPoolFair ==
    /\ SpecPool
    /\ \A j \in 1..Len(Clock) :
        /\ WF_vars(j \in DOMAIN tasks /\ StartJob(j) /\ UNCHANGED crawlerSide)
        /\ WF_vars(j \in DOMAIN tasks /\ JobStep(j) /\ UNCHANGED crawlerSide)

(***************************************************************************)
(* Properties.                                                             *)
(***************************************************************************)
\* the records of the job so far, finished crawls first
JobRecords == all_job_results \o site_image_data

\* a record (or the entry being filled) carries the failure value of a prompt
DescribeFailed(entry) == entry.description = DescFail
CategorizeFailed(entry) == entry.content_category = "Unknown"
ModerateFailed(entry) == entry.moderation = ModerationFail
AllFailed(entry) ==
    DescribeFailed(entry) /\ CategorizeFailed(entry) /\ ModerateFailed(entry)
SomeFailed(entry) ==
    DescribeFailed(entry) \/ CategorizeFailed(entry) \/ ModerateFailed(entry)

\* the skip test has just been run on image_entry
JustTested == last_image \in {"keep", "skip", "raise"}

\* C1: within the crawl of one root URL no URL is navigated to more than
\* once, whether its page load succeeded or failed.
C1_NavigatedOncePerCrawl ==
    \A u \in AllUrls : site_navigations[u] <= 1

\* C1 witness: two pages were navigated to and the second links back to a
\* visited one, which is not admitted again.
C1_Witness ==
    /\ pc = "links"
    /\ Cardinality({u \in AllUrls : site_navigations[u] = 1}) >= 2
    /\ last_href.url \in visited_urls
    /\ last_href.url # current_page_url
    /\ ~last_href.admitted

\* C2: over a whole job, several seed rows included, every URL is navigated
\* to at most once, also when two rows resolve to the same host or URL.
C2_NavigatedOncePerJob ==
    \A u \in AllUrls : navigations[u] <= 1

\* C3: the visited set and the pending set are disjoint at every point of the
\* crawl loop, and the 'already visited, continue' branch is never taken.
C3_VisitedPendingDisjoint ==
    /\ visited_urls \cap urls_to_visit = {}
    /\ ~popped_visited

\* C3 witness: at the loop head after two pops, with a URL still pending.
C3_Witness ==
    /\ pc = "loop"
    /\ Cardinality(visited_urls) >= 2
    /\ urls_to_visit # {}

\* C4 as stated: every pending or visited URL has the root's netloc and is an
\* HTTP(S) URL.
C4_SameHostAndHttp ==
    \A u \in urls_to_visit \cup visited_urls :
        /\ u.netloc = parsed_root_url.netloc
        /\ u.scheme \in {"http", "https"}

\* C4 as amended: every pending or visited URL has exactly the root's netloc,
\* and a link whose netloc differs (a subdomain, another host, a target with
\* no netloc) is not admitted; the scheme is not looked at.
C4_SameNetloc ==
    /\ \A u \in urls_to_visit \cup visited_urls :
            u.netloc = parsed_root_url.netloc
    /\ (last_href.url # NoUrl /\ last_href.url.netloc # parsed_root_url.netloc)
            => (~last_href.admitted /\ last_href.url \notin urls_to_visit)

\* C4 witness: a link to a subdomain of the root was handled and not admitted.
C4_Witness ==
    /\ pc = "links"
    /\ parsed_root_url.netloc = "a.com"
    /\ last_href.url.netloc = "b.a.com"
    /\ ~last_href.admitted
    /\ last_href.url \notin urls_to_visit

\* C5: images of identical decoded content found anywhere in a job give one
\* record in the job's catalog; stated for its upper half: no two records of
\* the job hold the same content.
C5_OneRecordPerContent ==
    \A i, j \in 1..Len(JobRecords) :
        EntryKey(JobRecords[i]) = EntryKey(JobRecords[j]) => i = j

\* C6: content seen once anywhere in the job is not analysed again, on a later
\* page or under a later seed: no content gets the describe prompt twice.
C6_AnalysedOncePerJob ==
    \A k \in DedupKeys : analysed[k] <= 1

\* C7: downloads of identical bytes leave one saved file in the job's output,
\* whatever the image URLs and pages.
C7_OneFilePerBytes ==
    \A f, g \in files : f.stem = g.stem => f = g

\* C8: an image whose describe, categorize and moderate all returned their
\* failure value (with an endpoint resolved) is not in the catalog: no record
\* carries the three failure values, and the skip test never keeps such an image.
C8_TotalFailureDropped ==
    /\ \A i \in 1..Len(JobRecords) : ~AllFailed(JobRecords[i])
    /\ \A i \in 1..Len(catalog_file.records) : ~AllFailed(catalog_file.records[i])
    /\ (JustTested /\ AllFailed(image_entry)) => last_image # "keep"

\* C8 witness: the skip test has run on an image whose three prompts failed,
\* and the records of the crawl do not hold it.
C8_Witness ==
    /\ JustTested
    /\ api_path # None
    /\ AllFailed(image_entry)
    /\ \A i \in 1..Len(site_image_data) : site_image_data[i] # image_entry

\* C9: when at least one of the three results is not its failure value (the
\* moderation category being a JSON string, as the prompt asks), the record is
\* appended with the three values as returned.
C9_PartialFailureKept ==
    (/\ JustTested
     /\ ~AllFailed(image_entry)
     /\ image_entry.moderation.category[1] = "str")
        => /\ last_image = "keep"
           /\ site_image_data # <<>>
           /\ site_image_data[Len(site_image_data)] = image_entry

\* C10: a failure of the inference calls for one image is confined to that
\* image: once the image is dealt with, the crawl is back in the image loop of
\* the same page (the remaining images and the links follow), not in the
\* page's except clause.
C10_FailureConfined ==
    (JustTested /\ SomeFailed(image_entry)) => pc = "images"

(***************************************************************************)
(* Properties of the inference client.                                     *)
(***************************************************************************)
\* the replies that make an attempt fail without ending the call
Failures == {"500", "timeout", "not-json", "json-array"}
\* the call under way has returned or raised
CallOver == cpc \in {"wrap", "returned"}
\* every attempt of the call so far failed with an error other than a 404
AllAttemptsFailed ==
    /\ replies # <<>>
    /\ \A i \in 1..Len(replies) : replies[i] \in Failures

\* C11: one inference call sends at most three requests (each request is one
\* reply met); it never raises; and a call whose every attempt failed with an
\* error other than a 404 is over only after the third attempt, with None
C11_AtMostThreeAttempts ==
    /\ requests <= 3
    /\ requests = Len(replies)
    /\ ~(returned.raised /\ returned.value = <<"ollama_api_call">>)
    /\ CallOver /\ AllAttemptsFailed => Len(replies) = 3 /\ response = NoneText

\* a call is over after three failed attempts
C11_Witness ==
    /\ cpc = "wrap"
    /\ AllAttemptsFailed
    /\ requests = 3
    /\ response = NoneText

\* C12 (as stated): a call over after three consecutive failures has slept
\* 1s, 2s and 4s
C12_DelaysOneTwoFour ==
    CallOver /\ AllAttemptsFailed /\ Len(replies) = 3 => delays = <<1, 2, 4>>

\* C12 (amended): the call sleeps between attempts only, 2^attempt seconds after
\* the failure of attempt 0 and of attempt 1; a call over after three
\* consecutive failures has slept 1s and 2s, and nothing after the third
C12_DelaysBetweenAttempts ==
    /\ delays \in {<<>>, <<1>>, <<1, 2>>}
    /\ Len(delays) = attempt
    /\ CallOver /\ AllAttemptsFailed /\ Len(replies) = 3 => delays = <<1, 2>>

\* three attempts failed and the call is over, two sleeps behind it
C12_Witness ==
    /\ CallOver
    /\ AllAttemptsFailed
    /\ Len(replies) = 3
    /\ Len(delays) = 2

\* C13: a 404 ends the call at once, on whichever attempt: the call is over
\* with None, no attempt follows the 404 and no sleep follows it (the sleeps are
\* those of the failures before it)
C13_NotFoundEndsCall ==
    \A i \in 1..Len(replies) :
        replies[i] = "404" =>
            /\ i = Len(replies)
            /\ CallOver
            /\ response = NoneText
            /\ Len(delays) = i - 1

\* a 404 met on the second attempt
C13_Witness ==
    /\ Len(replies) = 2
    /\ replies[1] \in Failures
    /\ replies[2] = "404"
    /\ cpc = "returned"

\* the requests of a discovery in the order the code lists them
ProbeOrder == <<"/">> \o API_PATHS
\* check_ollama_server has returned
Discovered == cpc \notin {"idle", "paths"}

\* C15: discovery probes the root first and the candidate paths after it, in
\* the listed order and each at most once; a path is probed only after the root
\* answered 200 and every path before it failed; the result is the first path
\* that answered 200, and None when the root failed or no path answered 200
C15_DiscoveryOrder ==
    /\ Len(probes) <= Len(ProbeOrder)
    /\ \A i \in 1..Len(probes) :
        /\ probes[i].path = ProbeOrder[i]
        /\ i < Len(probes) => (probes[i].outcome = "200" <=> i = 1)
    /\ Discovered =>
        LET last == probes[Len(probes)] IN
        /\ probes # <<>>
        /\ found = IF Len(probes) > 1 /\ last.outcome = "200"
                   THEN last.path
                   ELSE None
        /\ found = None =>
                \/ Len(probes) = 1 /\ last.outcome # "200"
                \/ Len(probes) = Len(ProbeOrder)

\* the second candidate path is returned after the first one failed
C15_Witness ==
    /\ Discovered
    /\ Len(probes) = 3
    /\ probes[2].outcome # "200"
    /\ found = API_PATHS[2]

\* C17: the wrapper of a prompt never raises, whatever the service answered:
\* describe returns a non-empty text, categorize a category string, moderate a
\* category string with a number
C17_WrappersNeverRaise ==
    cpc = "returned" =>
        /\ ~returned.raised
        /\ request = "describe" => Truthy(returned.value)
        /\ request = "categorize" => returned.value # None
        /\ request = "moderate" => returned.value.category # JNull

(***************************************************************************)
(* Properties of the job: degraded mode, discovery, the list, the catalog. *)
(***************************************************************************)
\* a record with the three placeholders of degraded mode
IsPlaceholder(entry) ==
    /\ entry.description = DescDegraded
    /\ entry.content_category = "Unknown"
    /\ entry.moderation = ModerationFail
\* a crawl is under way and its discovery resolved no endpoint
DegradedCrawl == pc \notin {"start", "seeds", "discover", "done"} /\ api_path = None
\* every discovery of the job so far resolved no endpoint
DegradedJob ==
    /\ discovery_log # <<>>
    /\ \A i \in 1..Len(discovery_log) : discovery_log[i] = None

\* C14: in a crawl without an endpoint no prompt is sent, no image meets the
\* skip test, every image that passes the dedup test gets a record, and every
\* record carries the three placeholders; a job all of whose discoveries
\* resolved nothing sends no prompt at all, goes through every row, and the
\* catalog it writes holds placeholder records only
C14_DegradedMode ==
    /\ DegradedCrawl =>
        /\ pc \notin {"describe", "categorize", "moderate", "skip_test"}
        /\ last_image \notin {"new", "keep", "skip", "raise"}
        /\ pc = "except" => last_image = "none"
        /\ Len(site_image_data) = Cardinality(image_hashes)
        /\ \A i \in 1..Len(site_image_data) : IsPlaceholder(site_image_data[i])
    /\ DegradedJob =>
        /\ \A k \in DedupKeys : analysed[k] = 0
        /\ \A i \in 1..Len(JobRecords) : IsPlaceholder(JobRecords[i])
        /\ pc = "done" =>
            /\ seed_idx = Len(urls_to_crawl)
            /\ job_result = "True" <=> catalog_file.written
            /\ catalog_file.written => catalog_file.records = all_job_results

\* a degraded job is over, its catalog written with a placeholder record in it
C14_Witness ==
    /\ DegradedJob
    /\ pc = "done"
    /\ job_result = "True"
    /\ catalog_file.records # <<>>
    /\ IsPlaceholder(catalog_file.records[1])

\* C16: endpoint discovery runs once per job
C16_DiscoveredOncePerJob == Len(discovery_log) <= 1

\* C18: a list that cannot be read ends the job with False before any page is
\* navigated, any endpoint probed, any image fetched or saved, and without a
\* catalog file
C18_UnreadableListFails ==
    ~csv_file.readable =>
        /\ pc \in {"start", "done"}
        /\ pc = "done" => job_result = "False"
        /\ \A u \in AllUrls : navigations[u] = 0
        /\ discovery_log = <<>>
        /\ imgs_done = 0
        /\ files = {}
        /\ ~catalog_file.exists
        /\ catalog_writes = 0

\* the job of an unreadable list is over
C18_Witness ==
    /\ ~csv_file.readable
    /\ pc = "done"
    /\ job_result = "False"

\* C19: a job that is over reports success with a complete catalog on disk, or
\* failure with no catalog file on disk
C19_SuccessIffCatalog ==
    pc = "done" =>
        \/ job_result = "True" /\ catalog_file.exists /\ catalog_file.written
        \/ job_result = "False" /\ ~catalog_file.exists

\* C20 (as stated): every job writes the catalog exactly once, after every row
\* is done, with all the records in order
C20_WrittenExactlyOnce ==
    /\ catalog_writes <= 1
    /\ pc = "done" =>
        /\ catalog_writes = 1
        /\ seed_idx = Len(urls_to_crawl)
        /\ catalog_file.records = all_job_results

\* C20 (amended): the catalog file is opened for writing at most once per job
\* and only by a job whose list held a URL, after the crawl of every row has
\* returned (or raised) and while no crawl is under way; a catalog dumped in
\* full holds the records of all crawls in the order they were appended
C20_WrittenAtMostOnceAtEnd ==
    /\ catalog_writes <= 1
    /\ catalog_file.exists <=> catalog_writes = 1
    /\ catalog_file.exists =>
        /\ pc = "done"
        /\ urls_to_crawl # <<>>
        /\ seed_idx = Len(urls_to_crawl)
        /\ urls_to_visit = {}
        /\ site_image_data = <<>>
    /\ catalog_file.written => catalog_file.records = all_job_results
    /\ ~csv_file.readable \/ urls_to_crawl = <<>> => catalog_writes = 0

\* the catalog of a job of two rows is written with the records of both crawls
C20_Witness ==
    /\ catalog_file.written
    /\ Len(urls_to_crawl) = 2
    /\ Len(catalog_file.records) >= 2
    /\ catalog_file.records[1].source_url.netloc
            # catalog_file.records[2].source_url.netloc

(***************************************************************************)
(* Properties of the crawl loop: resources, failed pages, pacing.          *)
(***************************************************************************)
\* C21: between crawls and when the job is over nothing the crawl opened is
\* still open (session, driver, browser, page), whether the crawl returned or
\* raised; and at the head of the loop no page is open, whether the page
\* before was closed normally or failed
C21_ResourcesReleased ==
    /\ pc \in {"start", "seeds", "done"} => open_resources = {}
    /\ pc = "loop" => "page" \notin open_resources
    /\ pc \notin {"start", "seeds", "done"} => "session" \in open_resources

\* the job is over after a crawl in which a page failed
C21_Witness ==
    /\ pc = "done"
    /\ last_page \in {"goto-failed", "aborted"}
    /\ open_resources = {}

\* the page's except clause is running for a navigation that failed
NavigationFailed == pc = "except" /\ last_image = "none"

\* C22: a navigation that fails leaves the records, the pending set and the
\* visited set as they are, and the step after it is the head of the loop
C22_NavigationFailureSkipsPage ==
    [][/\ pc = "goto" /\ pc' = "except" =>
            /\ site_image_data' = site_image_data
            /\ all_job_results' = all_job_results
            /\ urls_to_visit' = urls_to_visit
       /\ NavigationFailed =>
            /\ pc' = "loop"
            /\ site_image_data' = site_image_data
            /\ all_job_results' = all_job_results
            /\ urls_to_visit' = urls_to_visit
            /\ visited_urls' = visited_urls]_vars

\* after a failed navigation the loop has popped the next pending URL, with the
\* records of an earlier page in place
C22_Witness ==
    /\ pc = "goto"
    /\ last_page = "goto-failed"
    /\ site_image_data # <<>>

\* C26: a navigation that is not the first of the job follows the pacing sleep
\* of the page before it
C26_PacedNavigations ==
    pc = "goto" /\ last_page # "none" => last_page = "closed"

\* C23: get_image_content never raises, and returns no result when the fetch
\* fails, the file cannot be written or the bytes do not decode; the image loop
\* then stands at its next round with no record under way, the records and
\* the dedup index as they were
C23_AcquisitionFailureSkipsImage ==
    /\ \A img_url \in ImgUrls, body \in Bodies \cup {FetchFailed},
          writable \in BOOLEAN :
        LET got == get_image_content(img_url, body, writable, "a.com") IN
        /\ ~got.raised
        /\ body = FetchFailed \/ ~writable \/ Raster(body) = None => ~got.ok
    /\ last_image # "acquire-raised"
    /\ last_image = "no-result" =>
        /\ pc = "images"
        /\ image_entry = NoEntry
        /\ DegradedCrawl => Len(site_image_data) = Cardinality(image_hashes)

\* an image whose bytes were saved but do not decode has been passed over
C23_Witness ==
    /\ last_image = "no-result"
    /\ pc = "images"
    /\ \E f \in files : Raster(f.stem[2]) = None

\* C27: the crawl of a row starts at the row itself when the row has an http
\* or https scheme in any letter case, and at 'https://' + row when it has none
C27_SchemeKeptOrPrepended ==
    pc \notin {"start", "seeds", "done"} =>
        LET row == urls_to_crawl[seed_idx] IN
        parsed_root_url = IF Lower(row.scheme) \in {"http", "https"}
                          THEN row
                          ELSE Url("https", row.netloc, row.path)

\* C30: for every record, the file on disk and the payload that was sent for
\* analysis decode to the same pixels
C30_RoundTrip ==
    \A i \in 1..Len(JobRecords) :
        LET record == JobRecords[i]
            body == record.local_path.stem[2]
            got == get_image_content(record.original_image_url, body, TRUE,
                                     record.local_path.dir)
        IN  ReencodedPixels(B64Decode(got.image_base64)) = FilePixels(body)

HasCsvExtension(filename) ==
    Len(filename) >= 2 /\ filename[Len(filename)] \in {"csv", "CSV"}

\* C28: an upload without a file whose name has the csv extension leaves the
\* job directories and the executor's jobs as they were; one with it adds
\* exactly one directory and exactly one queued job
C28_UploadGate ==
    [][handled' = handled + 1 =>
        LET file == batch[handled + 1] IN
        IF file.has_file /\ HasCsvExtension(file.filename)
        THEN /\ Cardinality(DOMAIN jobs_folder') =
                    Cardinality(DOMAIN jobs_folder) + 1
             /\ Len(tasks') = Len(tasks) + 1
             /\ \A j \in DOMAIN tasks : tasks'[j] = tasks[j]
             /\ tasks'[Len(tasks')].state = "queued"
             /\ tasks'[Len(tasks')].job_output_dir
                    \in DOMAIN jobs_folder' \ DOMAIN jobs_folder
        ELSE /\ jobs_folder' = jobs_folder
             /\ tasks' = tasks]_vars

\* three uploads handled: one was refused for its extension, two were accepted
C28_Witness ==
    /\ handled = Len(batch)
    /\ \E n \in DOMAIN flashes : flashes[n] = "Allowed file types are CSV"
    /\ Len(tasks) = 2
    /\ Cardinality(DOMAIN jobs_folder) = 2

\* C24: never more than 2 jobs running; a queued job starts only when fewer
\* than 2 are running; every submitted job is started in the end
C24_AtMostTwoRunning ==
    /\ [](Cardinality(Running) <= 2)
    /\ [][\A j \in DOMAIN tasks :
            tasks[j].state = "queued" /\ tasks'[j].state # "queued"
                => Cardinality(Running) < 2]_vars
    /\ \A j \in 1..Len(Clock) :
            (j \in DOMAIN tasks) ~>
                (j \in DOMAIN tasks /\ tasks[j].state # "queued")

\* a job submitted while two were running has been started, one of the two
\* having finished
C24_Witness ==
    \E j \in DOMAIN tasks :
        /\ tasks[j].waited
        /\ tasks[j].state = "loop"
        /\ Cardinality(Running) = 2
        /\ \E k \in DOMAIN tasks : tasks[k].state = "finished"

\* C25: no two jobs share a directory; a running job crawls the list uploaded
\* with it; a finished job's directory holds the catalog and the images that
\* list gives when crawled alone
C25_JobsIsolated ==
    /\ \A j, k \in DOMAIN tasks :
            j # k => tasks[j].job_output_dir # tasks[k].job_output_dir
    /\ \A j \in DOMAIN tasks :
        LET t == tasks[j]
            dir == jobs_folder[t.job_output_dir]
        IN  /\ t.state \notin {"queued", "read"} => t.urls_to_crawl = t.uploaded
            /\ t.state = "finished" =>
                /\ t.result = "True"
                /\ dir.has_catalog
                /\ dir.catalog = SoloCatalog(t.uploaded, t.job_output_dir)
                /\ dir.images = SoloImages(t.uploaded)

\* three jobs with different lists are over; the first two ran side by side
\* (the third found no worker free when it was submitted)
C25_Witness ==
    /\ Len(tasks) = 3
    /\ tasks[3].waited
    /\ tasks[1].uploaded # tasks[2].uploaded
    /\ \A j \in DOMAIN tasks : tasks[j].state = "finished"

\* C31: a payload that does not decode as an image leaves no file: every file
\* on disk holds bytes that decode
C31_InvalidPayloadLeavesNoFile ==
    \A f \in files : Raster(f.stem[2]) # None

\* the dedup key the crawl computes for the image a saved file holds
FileKey(f) == EntryKey([local_path |-> f])

\* C32: the dedup key of a kept image is the hash its file is named by: a saved
\* image of the same site has the key of a kept one exactly when it has its
\* filename stem
C32_KeyIsStem ==
    \A i \in 1..Len(site_image_data) : \A f \in files :
        LET kept == site_image_data[i] IN
        (f.dir = kept.local_path.dir /\ Raster(f.stem[2]) # None) =>
            (FileKey(f) = EntryKey(kept) <=> f.stem = kept.local_path.stem)

\* C33: for an image with a resolved endpoint the describe prompt is followed
\* by the categorize prompt and that by the moderate prompt, whatever the
\* earlier prompt met, and the skip test follows the three
C33_ThreePromptsInOrder ==
    [][/\ pc = "describe" => pc' = "categorize"
       /\ pc = "categorize" => pc' = "moderate"
       /\ pc = "moderate" => pc' = "skip_test"]_vars

\* C36: an exception leaving the crawl of one row leaves the records of the
\* rows before it as they were and the loop at the next row; a job in which
\* this happened still takes every row, and it reports success exactly when
\* its catalog was written in full, with all the records of the job
C36_EscapeDiscardsOneSite ==
    /\ [][escaped' # escaped =>
            /\ all_job_results' = all_job_results
            /\ urls_to_crawl' = urls_to_crawl
            /\ seed_idx' = seed_idx
            /\ pc' = "seeds"]_vars
    /\ [](pc = "done" /\ escaped # {} =>
            /\ seed_idx = Len(urls_to_crawl)
            /\ job_result = "True" <=> catalog_file.written
            /\ catalog_file.written => catalog_file.records = all_job_results)

\* the crawl of the first row gathered a record and was left by an exception;
\* the second row was crawled and the catalog written holds its record alone
C36_Witness ==
    /\ pc = "done"
    /\ job_result = "True"
    /\ \E e \in escaped : e[1] = 1 /\ e[2] >= 1
    /\ Len(urls_to_crawl) = 2
    /\ Len(catalog_file.records) = 1
    /\ catalog_file.records[1].source_url.netloc
            = EnsureScheme(urls_to_crawl[2]).netloc

\* C35: a URL whose page ended in the except clause is visited, is not pending
\* and was navigated once in this crawl; the except clause adds nothing to the
\* frontier
C35_FailedPageNotRetried ==
    /\ [](\A u \in failed_urls :
            /\ u \in visited_urls
            /\ u \notin urls_to_visit
            /\ site_navigations[u] = 1)
    /\ [][pc = "except" =>
            /\ urls_to_visit' = urls_to_visit
            /\ visited_urls' = visited_urls]_vars

\* a page failed and the crawl went on: a page pending at the time has loaded
\* and its links are being handled
C35_Witness ==
    /\ failed_urls # {}
    /\ pc = "links"
    /\ links_done >= 1
    /\ current_page_url \in visited_urls \ failed_urls

\* the image is between its dedup test and the end of its skip test
UnderAnalysis == pc \in {"describe", "categorize", "moderate", "skip_test"}
\* the records of this crawl hold an image of this dedup key
HasRecord(k) == \E i \in 1..Len(site_image_data) : EntryKey(site_image_data[i]) = k
\* both states of the step belong to the crawl of one row
SameCrawl == parsed_root_url # NoUrl /\ parsed_root_url' = parsed_root_url

\* C34: the key of an image under analysis is in the dedup index; within a
\* crawl no key leaves the index; a key in the index whose image is neither
\* under analysis nor in the records (dropped, or its page interrupted) gets
\* no describe prompt and no record
C34_DroppedStaysDropped ==
    /\ [](UnderAnalysis => EntryKey(image_entry) \in image_hashes)
    /\ [][SameCrawl => image_hashes \subseteq image_hashes']_vars
    /\ [][\A k \in image_hashes :
            (/\ SameCrawl
             /\ ~HasRecord(k)
             /\ ~(UnderAnalysis /\ EntryKey(image_entry) = k))
                => /\ analysed'[k] = analysed[k]
                   /\ ~HasRecord(k)']_vars

\* an image was dropped after its three prompts failed, and the same content
\* met again on the page is skipped as a duplicate
C34_Witness ==
    /\ api_path # None
    /\ last_image = "duplicate"
    /\ site_image_data = <<>>
    /\ image_hashes # {}
    /\ \A k \in image_hashes : analysed[k] = 1

\* C37: the local_path of every record, of the job so far and of the catalog,
\* is a file on disk; no step removes a file
C37_RecordsNameSavedFiles ==
    /\ [](/\ \A i \in 1..Len(JobRecords) : JobRecords[i].local_path \in files
          /\ \A i \in 1..Len(catalog_file.records) :
                catalog_file.records[i].local_path \in files)
    /\ [][files \subseteq files']_vars

\* the catalog is written: its record names a saved file, and another saved
\* file (a duplicate, a dropped image or an invalid payload) has no record
C37_Witness ==
    /\ pc = "done"
    /\ catalog_file.written
    /\ catalog_file.records # <<>>
    /\ \E f \in files :
        \A i \in 1..Len(catalog_file.records) :
            catalog_file.records[i].local_path # f

\* the list can be read and none of its rows has a non-blank first cell
BlankList ==
    /\ csv_file.readable
    /\ \A i \in 1..Len(csv_file.rows) : csv_file.rows[i] = NoUrl

\* C38: the job of a readable list without a URL ends with False right after
\* the read: no crawl starts, no page is navigated, no catalog is opened
C38_BlankListFails ==
    BlankList =>
        /\ pc \in {"start", "done"}
        /\ pc = "done" => job_result = "False"
        /\ seed_idx = 0
        /\ \A u \in AllUrls : navigations[u] = 0
        /\ catalog_writes = 0
        /\ ~catalog_file.exists

\* the job of a list holding one blank row is over
C38_Witness ==
    /\ csv_file.readable
    /\ csv_file.rows = <<NoUrl>>
    /\ pc = "done"
    /\ job_result = "False"

====
